---- MODULE Spec2Model ----
(***************************************************************************)
(* Model of the Meshtastic channel plugin: the SSE message handler of      *)
(* plugin/src/monitor.ts (DM policy gate, pairing, command gate, routing,  *)
(* dispatch, chunked and paced delivery) and the id normalizers of         *)
(* plugin/src/channel.ts.                                                  *)
(*                                                                         *)
(* Strings are sequences of one-character strings, so that trim(),         *)
(* toLowerCase() and the prefix regex are computed, not assumed.           *)
(***************************************************************************)
EXTENDS Integers, Sequences, FiniteSets, TLC

(***************************************************************************)
(* String primitives (JavaScript String.prototype.trim / toLowerCase and   *)
(* the regex /^(meshtastic|mesh):/i).                                      *)
(***************************************************************************)
UpperChars ==
    <<"A","B","C","D","E","F","G","H","I","J","K","L","M",
      "N","O","P","Q","R","S","T","U","V","W","X","Y","Z">>

LowerChars ==
    <<"a","b","c","d","e","f","g","h","i","j","k","l","m",
      "n","o","p","q","r","s","t","u","v","w","x","y","z">>

WhiteSpace == {" ", "\t"}

LowerChar(c) ==
    IF \E i \in 1..Len(UpperChars) : UpperChars[i] = c
    THEN LowerChars[CHOOSE i \in 1..Len(UpperChars) : UpperChars[i] = c]
    ELSE c

\* String.prototype.toLowerCase
toLowerCase(s) == [i \in 1..Len(s) |-> LowerChar(s[i])]

RECURSIVE trimStart(_)
trimStart(s) ==
    IF s # <<>> /\ Head(s) \in WhiteSpace THEN trimStart(Tail(s)) ELSE s

RECURSIVE trimEnd(_)
trimEnd(s) ==
    IF s # <<>> /\ s[Len(s)] \in WhiteSpace
    THEN trimEnd(SubSeq(s, 1, Len(s) - 1))
    ELSE s

\* String.prototype.trim
trim(s) == trimEnd(trimStart(s))

StartsWith(s, p) == Len(s) >= Len(p) /\ SubSeq(s, 1, Len(p)) = p

DropFirst(s, n) == SubSeq(s, n + 1, Len(s))

PrefixMeshtastic == <<"m","e","s","h","t","a","s","t","i","c",":">>

PrefixMesh == <<"m","e","s","h",":">>

\* s.replace(/^(meshtastic|mesh):/i, ""): one match at the start, dropped once
stripChannelPrefix(s) ==
    IF StartsWith(toLowerCase(s), PrefixMeshtastic)
    THEN DropFirst(s, Len(PrefixMeshtastic))
    ELSE IF StartsWith(toLowerCase(s), PrefixMesh)
         THEN DropFirst(s, Len(PrefixMesh))
         ELSE s

(***************************************************************************)
(* The normalizers of the source.                                          *)
(***************************************************************************)
\* monitor.ts normalizeNodeId: raw.trim().toLowerCase()
normalizeNodeId(raw) == toLowerCase(trim(raw))

\* channel.ts formatAllowFromEntry: entry.trim().toLowerCase().replace(prefix, "")
formatAllowFromEntry(entry) == stripChannelPrefix(toLowerCase(trim(entry)))

\* channel.ts normalizeMeshtasticTarget: trimmed, prefix dropped, case kept;
\* the empty sequence stands for `undefined`
normalizeMeshtasticTarget(raw) ==
    IF trim(raw) = <<>> THEN <<>> ELSE stripChannelPrefix(trim(raw))

Wildcard == <<"*">>

\* monitor.ts isSenderAllowed
isSenderAllowed(senderId, allowFrom) ==
    IF \E i \in 1..Len(allowFrom) : allowFrom[i] = Wildcard
    THEN TRUE
    ELSE \E i \in 1..Len(allowFrom) :
            toLowerCase(trim(allowFrom[i])) = normalizeNodeId(senderId)

(***************************************************************************)
(* Host services the handler calls (openclaw/plugin-sdk; not part of this  *)
(* repository).  Their contracts are taken from the specification.         *)
(***************************************************************************)
Slash == "/"

\* core.channel.commands.isControlCommandMessage: the body is a command
isControlCommandMessage(body) == body # <<>> /\ Head(body) = Slash

\* core.channel.commands.shouldComputeCommandAuthorized: the body is a
\* control command or carries an inline command token
shouldComputeCommandAuthorized(body) ==
    \E i \in 1..Len(body) : body[i] = Slash

\* core.channel.commands.resolveCommandAuthorizedFromAuthorizers with the one
\* authorizer the handler passes
resolveCommandAuthorizedFromAuthorizers(accessGroups, configured, allowed) ==
    IF accessGroups THEN configured /\ allowed ELSE TRUE

\* core.channel.text.chunkText(text, limit): a text of n bytes is the slice
\* 1..n of itself; the chunks are consecutive slices of at most `limit` bytes
RECURSIVE chunkFrom(_, _, _)
chunkFrom(lo, n, limit) ==
    IF lo > n THEN <<>>
    ELSE LET hi == IF lo + limit - 1 < n THEN lo + limit - 1 ELSE n
         IN <<[kind |-> "chunk", lo |-> lo, hi |-> hi, id |-> <<>>]>>
                \o chunkFrom(hi + 1, n, limit)

chunkText(n, limit) == chunkFrom(1, n, limit)

\* core.channel.pairing.upsertPairingRequest: created iff no request is
\* pending under that id
upsertCreated(requests, id) == id \notin requests

(***************************************************************************)
(* Constants and small decisions of the source, one operator each.         *)
(***************************************************************************)
\* a limit ten bytes over the radio's
chunkLimit_wrong == 230 + 10

\* monitor.ts:307 chunkLimit
chunkLimit == 230

\* monitor.ts:312 setTimeout(r, 3000), in seconds
PacingDelay == 3

\* a loop that never waits
NeedsDelay_never(i) == FALSE

\* monitor.ts:312 `if (i > 0)` (i counts from 0)
NeedsDelay(i) == i > 0

\* a monitor that never takes the `disabled` return
PolicyDisabled_never(policy) == FALSE

\* monitor.ts:102 the policy that drops every message
PolicyDisabled(policy) == policy = "disabled"

\* a monitor that sends the challenge after every upsert
SendsChallenge_always(created) == TRUE

\* monitor.ts:131 `if (created)`: the challenge is sent
SendsChallenge(created) == created

\* a loop that stays on the chunk whose send failed
AfterSend_retry(ok, i) == IF ok THEN i + 1 ELSE i

\* monitor.ts:310, 321-323 the index after an attempt: the catch block logs
\* and the loop goes on
AfterSend(ok, i) == i + 1

\* a gate that stops nobody under `pairing`
GateBlocks_allowlistOnly(policy, senderAllowed) ==
    policy = "allowlist" /\ ~senderAllowed

\* a gate that stops nobody under `allowlist`
GateBlocks_pairingOnly(policy, senderAllowed) ==
    policy = "pairing" /\ ~senderAllowed

\* a gate that does not look at the policy
GateBlocks_ignoresOpen(policy, senderAllowed) == ~senderAllowed

\* a handler that reads the allow store for every message
NeedsStoreRead_always(policy, shouldComputeAuth) == TRUE

\* monitor.ts:111 the allow store is read
NeedsStoreRead(policy, shouldComputeAuth) ==
    policy # "open" \/ shouldComputeAuth

\* monitor.ts:124 the DM policy gate stops the message
GateBlocks(policy, senderAllowed) == policy # "open" /\ ~senderAllowed

\* a handler without the control-command gate
ControlCommandDropped_never(isControl, commandAuthorized) == FALSE

\* monitor.ts:153-156 a control command that is not authorized;
\* commandAuthorized is <<>> (undefined) or <<b>>
ControlCommandDropped(isControl, commandAuthorized) ==
    isControl /\ commandAuthorized # <<TRUE>>

(***************************************************************************)
(* Bounds of the exploration.                                              *)
(***************************************************************************)
\* longest reply, in chunks
MaxChunks == 3

\* deliver() calls one dispatch may make
MaxPayloads == 2

\* optional prefixes stacked on an id handed to a normalizer
MaxPrefixes == 2

\* highest channel index of the messages handed to the route mapping
MaxChannel == 2

(***************************************************************************)
(* Literals.                                                               *)
(***************************************************************************)
Id_abc1 == <<"!","a","b","c","1">>

Id_AbC1 == <<"!","A","b","C","1">>

Id_b2 == <<"!","b","2">>

BroadcastTarget == <<"^","a","l","l">>

TextHi == <<"h","i">>

TextBlank == <<" ">>

TextControl == <<"/","s">>

TextInline == <<"h","i"," ","/","t">>

TypeConnected == <<"c","o","n","n","e","c","t","e","d">>

DigitChars == <<"0","1","2","3","4","5","6","7","8","9">>

\* `ch${channelIndex}`
ChannelPeer(n) == <<"c","h">> \o <<DigitChars[n + 1]>>

Prefixes ==
    { <<"m","e","s","h",":">>, <<"M","E","S","H",":">>,
      <<"m","e","s","h","t","a","s","t","i","c",":">>,
      <<"M","E","S","H","T","A","S","T","I","C",":">> }

\* an id under up to n stacked prefixes
RECURSIVE Prefixed(_, _)
Prefixed(ids, n) ==
    IF n = 0 THEN ids
    ELSE ids \cup Prefixed({p \o x : p \in Prefixes, x \in ids}, n - 1)

Padded(ids) == ids \cup {<<" ">> \o x : x \in ids} \cup {x \o <<" ">> : x \in ids}

(***************************************************************************)
(* Messages, effects, handler records.  An optional field of the JSON      *)
(* payload is <<>> (missing) or <<v>>; a missing string is the empty one   *)
(* (both are falsy in the source's tests).                                 *)
(***************************************************************************)
Msg(from, text, type, isDirect, channel) ==
    [parse |-> TRUE, type |-> type, from |-> from, text |-> text,
     isDirect |-> isDirect, channel |-> channel]

\* a payload JSON.parse rejects
Malformed ==
    [parse |-> FALSE, type |-> <<>>, from |-> <<>>, text |-> <<>>,
     isDirect |-> <<>>, channel |-> <<>>]

NoMsg == Malformed

NoText == [kind |-> "none", lo |-> 0, hi |-> 0, id |-> <<>>]

PairingText(id) == [kind |-> "pairing", lo |-> 0, hi |-> 0, id |-> id]

ApprovalText == [kind |-> "approval", lo |-> 0, hi |-> 0, id |-> <<>>]

\* one observable effect of a step
Op(op, to, channelIndex, text) ==
    [op |-> op, to |-> to, channelIndex |-> channelIndex, text |-> text]

Post(to, channelIndex, text) == Op("post", to, channelIndex, text)

Did(op) == Op(op, <<>>, 0, NoText)

DidTo(op, to) == Op(op, to, 0, NoText)

IdleHandler ==
    [pc |-> "idle", msg |-> NoMsg, storeAllowFrom |-> <<>>,
     senderAllowed |-> FALSE, commandAuthorized |-> <<>>,
     toNodeId |-> <<>>, channelIndex |-> 0, delivers |-> 0,
     payload |-> <<>>, chunks |-> <<>>, i |-> 0, timer |-> 0,
     sinceDone |-> 0, waited |-> 0, attempts |-> <<>>]

Handlers == {1, 2}

Policies == {"open", "allowlist", "pairing", "disabled"}

RECURSIVE SetToSeq(_)
SetToSeq(S) ==
    IF S = {} THEN <<>>
    ELSE LET x == CHOOSE y \in S : TRUE IN <<x>> \o SetToSeq(S \ {x})

Min(a, b) == IF a < b THEN a ELSE b

VARIABLES
    dmPolicy,        \* account.config.dm.policy
    configAllowFrom, \* account.config.dm.allowFrom
    useAccessGroups, \* config.commands.useAccessGroups !== false
    env,             \* what the bridge and the agent may produce in this run
    allowStore,      \* host: pairing-approved allow store
    pairingStore,    \* host: ids with a pending pairing request
    challenges,      \* per pending id: challenge POSTs made and succeeded
    status,          \* statusSink: lastInboundAt, lastOutboundAt
    stopped,         \* monitor.ts:54
    aborted,         \* abortSignal.aborted
    hs,              \* one record per onmessage invocation in flight
    fx,              \* the effects of the last step, in order
    sincePost,       \* <<>> or <<seconds since the last POST /send began>>
    nx,              \* normalizer runs: the successive values
    nfn,             \* normalizer runs: the function applied
    nallow,          \* membership runs: the allow list
    nres,            \* membership runs: <<>> or <<isSenderAllowed(..)>>
    rin,             \* route runs: the two messages drawn
    rout             \* route runs: <<>> or the two routes

vars ==
    <<dmPolicy, configAllowFrom, useAccessGroups, env, allowStore,
      pairingStore, challenges, status, stopped, aborted, hs, fx, sincePost,
      nx, nfn, nallow, nres, rin, rout>>

cfgVars == <<dmPolicy, configAllowFrom, useAccessGroups, env, aborted>>

normVars == <<nx, nfn, nallow, nres, rin, rout>>

NoFx == [h |-> 0, msg |-> NoMsg, ops |-> <<>>]

\* no POST /send has begun yet
NoPost == <<>>

\* the step's effects; a sendMeshtasticMessage or fetch(.../send) among them
\* restarts the clock of a clocked run
Effects(f) ==
    /\ fx' = f
    /\ sincePost' = IF env.clock /\ \E k \in 1..Len(f.ops) : f.ops[k].op = "post"
                    THEN <<0>>
                    ELSE sincePost

HasOp(kind) == \E k \in 1..Len(fx.ops) : fx.ops[k].op = kind

(***************************************************************************)
(* The handler eventSource.onmessage, cut at its awaits.                   *)
(***************************************************************************)
\* the handler goes on to (or stays at) an await
Await(h, rec, m, ops) ==
    /\ hs' = [hs EXCEPT ![h] = rec]
    /\ Effects([h |-> h, msg |-> m, ops |-> ops])

\* the handler returns (or its catch block has logged the error)
Return(h, m, ops) ==
    /\ hs' = [hs EXCEPT ![h] = IdleHandler]
    /\ Effects([h |-> h, msg |-> m, ops |-> ops])

\* a try block that opens after JSON.parse
Caught_afterParse(site) == site # "parse"

\* monitor.ts:74, 263-265 the try block holds the whole body of the handler:
\* what is thrown at any site is caught
Caught(site) == TRUE

\* something is thrown in the handler: the catch block logs it and the
\* handler returns, or nothing catches it and the rejection is unhandled
Throw(h, m, site, ops) ==
    IF Caught(site)
    THEN Return(h, m, ops \o <<Did("error")>>)
    ELSE Await(h, [hs[h] EXCEPT !.pc = "crashed"], m,
               ops \o <<Did("unhandled")>>)

\* a handler that reports every send as delivered
StatusAfterSend_always(ok, st) == [st EXCEPT !.lastOutboundAt = "set"]

\* monitor.ts:139-140, 314-320 statusSink({lastOutboundAt}) follows the
\* awaited send inside the try block: a send that throws skips it
StatusAfterSend(ok, st) ==
    IF ok THEN [st EXCEPT !.lastOutboundAt = "set"] ELSE st

\* the count of one pending id starts anew with its request
Fresh(c, id) ==
    [s \in DOMAIN c \cup {id} |->
        IF s = id THEN [sent |-> 0, ok |-> 0] ELSE c[s]]

\* the counts after an upsert: a created request starts at zero
Requested(c, store, id) ==
    IF upsertCreated(store, id) THEN Fresh(c, id) ELSE c

\* one more challenge POST made (`sent`) or succeeded (`ok`) for a pending
\* id; 2 stands for two or more
Counted(c, id, field) ==
    IF id \notin DOMAIN c THEN c
    ELSE [c EXCEPT ![id][field] = Min(@ + 1, 2)]

\* monitor.ts:162 msg.channel ?? 0
channelIndexOf(m) == IF m.channel = <<>> THEN 0 ELSE m.channel[1]

\* monitor.ts:163 msg.isDirect ?? false
isDirectOf(m) == IF m.isDirect = <<>> THEN FALSE ELSE m.isDirect[1]

\* monitor.ts:164 chatType
chatTypeOf(m) == IF isDirectOf(m) THEN "direct" ELSE "group"

\* a peer key that forgets the channel
peerIdOf_oneChannel(m) == IF isDirectOf(m) THEN m.from ELSE ChannelPeer(0)

\* monitor.ts:165 peerId
peerIdOf(m) == IF isDirectOf(m) THEN m.from ELSE ChannelPeer(channelIndexOf(m))

\* a reply that always goes to the sender
toNodeIdOf_sender(m) == m.from

\* monitor.ts:246 toNodeId of the deliveries
toNodeIdOf(m) == IF isDirectOf(m) THEN m.from ELSE BroadcastTarget

\* monitor.ts:161-262 route resolution, context, session meta, dispatch call
Route(h, rec, ops) ==
    LET m == rec.msg
        channelIndex == channelIndexOf(m)
        routeOp == Op(IF chatTypeOf(m) = "direct" THEN "routeDirect"
                      ELSE "routeGroup",
                      peerIdOf(m), channelIndex, NoText)
    IN \E ok \in BOOLEAN :
          IF ok
          THEN Await(h, [rec EXCEPT !.pc = "dispatch",
                                    !.toNodeId = toNodeIdOf(m),
                                    !.channelIndex = channelIndex],
                     m, ops \o <<routeOp, Did("sessionMeta"), Did("dispatch")>>)
          ELSE Throw(h, m, "route", ops \o <<routeOp>>)

\* monitor.ts:114-159 allow set, command authorization, the two gates
Gate(h, rec, storeAllowFrom, ops) ==
    LET m == rec.msg
        senderId == m.from
        rawBody == trim(m.text)
        shouldComputeAuth == shouldComputeCommandAuthorized(rawBody)
        effectiveAllowFrom == configAllowFrom \o storeAllowFrom
        senderAllowed == isSenderAllowed(senderId, effectiveAllowFrom)
        commandAuthorized ==
            IF shouldComputeAuth
            THEN <<resolveCommandAuthorizedFromAuthorizers(
                       useAccessGroups, Len(effectiveAllowFrom) > 0, senderAllowed)>>
            ELSE <<>>
        r1 == [rec EXCEPT !.storeAllowFrom = storeAllowFrom,
                          !.senderAllowed = senderAllowed,
                          !.commandAuthorized = commandAuthorized]
        ops1 == ops \o (IF commandAuthorized = <<>> THEN <<>>
                        ELSE IF commandAuthorized = <<TRUE>>
                             THEN <<Did("cmdAuthorized")>>
                             ELSE <<Did("cmdUnauthorized")>>)
    IN IF GateBlocks(dmPolicy, senderAllowed)
       THEN IF dmPolicy = "pairing"
            THEN Await(h, [r1 EXCEPT !.pc = "upsert"], m,
                       ops1 \o <<DidTo("upsert", senderId)>>)
            ELSE Return(h, m, ops1 \o <<Did("logBlocked")>>)
       ELSE IF ControlCommandDropped(isControlCommandMessage(rawBody),
                                     commandAuthorized)
            THEN Return(h, m, ops1 \o <<Did("logDropControl")>>)
            ELSE Route(h, r1, ops1)

\* monitor.ts:73-113 an event arrives: parse, filters, status, policy
Arrive(h, m) ==
    /\ ~stopped
    /\ m \in env.events
    /\ hs[h].pc = "idle"
    /\ \A g \in Handlers : g < h => hs[g].pc # "idle"
    /\ env.overlap \/ \A g \in Handlers : hs[g].pc = "idle"
    /\ LET content == m.parse /\ m.type # TypeConnected
                        /\ m.text # <<>> /\ m.from # <<>>
           rec == [IdleHandler EXCEPT !.msg = m]
           ops == <<Did("statusInbound")>>
       IN /\ status' = IF content
                       THEN [status EXCEPT !.lastInboundAt = "set"]
                       ELSE status
          /\ IF ~m.parse THEN Throw(h, m, "parse", <<>>)
             ELSE IF ~content THEN Return(h, m, <<>>)
             ELSE IF trim(m.text) = <<>> THEN Return(h, m, ops)
             ELSE IF PolicyDisabled(dmPolicy) THEN Return(h, m, ops)
             ELSE IF NeedsStoreRead(dmPolicy,
                        shouldComputeCommandAuthorized(trim(m.text)))
                  THEN Await(h, [rec EXCEPT !.pc = "readStore"], m,
                             ops \o <<Did("readStore")>>)
                  ELSE Gate(h, rec, <<>>, ops)
    /\ UNCHANGED <<cfgVars, allowStore, pairingStore, challenges, stopped, normVars>>

\* monitor.ts:112 readAllowFromStore settles; a rejection reads as []
ReadStoreDone(h) ==
    /\ hs[h].pc = "readStore"
    /\ \E ok \in BOOLEAN :
          Gate(h, hs[h], IF ok THEN SetToSeq(allowStore) ELSE <<>>,
               <<Did(IF ok THEN "storeRead" ELSE "storeReadFailed")>>)
    /\ UNCHANGED <<cfgVars, allowStore, pairingStore, challenges, status, stopped, normVars>>

\* monitor.ts:126-139 upsertPairingRequest settles; the challenge is posted
UpsertDone(h) ==
    /\ hs[h].pc = "upsert"
    /\ LET m == hs[h].msg
           senderId == m.from
       IN \E ok \in BOOLEAN :
             IF ~ok
             THEN /\ Throw(h, m, "upsert", <<>>)
                  /\ UNCHANGED <<pairingStore, challenges>>
             ELSE /\ pairingStore' = pairingStore \cup {senderId}
                  /\ IF SendsChallenge(upsertCreated(pairingStore, senderId))
                     THEN /\ Await(h, [hs[h] EXCEPT !.pc = "challenge"], m,
                                   <<DidTo("upserted", senderId),
                                     Did("logPairing"),
                                     Post(senderId, 0, PairingText(senderId))>>)
                          /\ challenges' =
                                 Counted(Requested(challenges, pairingStore,
                                                   senderId), senderId, "sent")
                     ELSE /\ Return(h, m, <<DidTo("upserted", senderId)>>)
                          /\ challenges' = Requested(challenges, pairingStore,
                                                     senderId)
    /\ UNCHANGED <<cfgVars, allowStore, status, stopped, normVars>>

\* monitor.ts:139-143 the challenge's POST settles
ChallengeDone(h) ==
    /\ hs[h].pc = "challenge"
    /\ \E ok \in BOOLEAN :
          /\ status' = StatusAfterSend(ok, status)
          /\ challenges' = IF ok THEN Counted(challenges, hs[h].msg.from, "ok")
                           ELSE challenges
          /\ Return(h, hs[h].msg,
                    IF ok THEN <<Did("challengeSent"), Did("statusOutbound")>>
                    ELSE <<Did("challengeFailed"), Did("error")>>)
    /\ UNCHANGED <<cfgVars, allowStore, pairingStore, stopped, normVars>>

(***************************************************************************)
(* deliverMeshtasticReply, called by the dispatcher's deliver().           *)
(***************************************************************************)
\* monitor.ts:314-319 sendMeshtasticMessage is called for chunks[i]
Send(h, rec, ops) ==
    LET chunk == rec.chunks[rec.i + 1]
    IN Await(h, [rec EXCEPT !.pc = "send",
                            !.attempts = Append(@, [i |-> rec.i, text |-> chunk,
                                                    ok |-> "pending"])],
             rec.msg, ops \o <<Post(rec.toNodeId, rec.channelIndex, chunk)>>)

\* monitor.ts:310-312 the head of the loop at index rec.i
Loop(h, rec, ops) ==
    IF rec.i >= Len(rec.chunks)
    THEN Await(h, [rec EXCEPT !.pc = "dispatch"], rec.msg,
               ops \o <<Did("delivered")>>)
    ELSE IF NeedsDelay(rec.i)
         THEN Await(h, [rec EXCEPT !.pc = "delay", !.timer = PacingDelay],
                    rec.msg, ops)
         ELSE Send(h, rec, ops)

\* monitor.ts:242-252, 301-310 the dispatcher calls deliver(payload);
\* payload.text is missing (<<>>) or has <<n>> bytes
DispatchDeliver(h) ==
    /\ hs[h].pc = "dispatch"
    /\ hs[h].delivers < MaxPayloads
    /\ \E p \in env.payloads :
          LET rec == [hs[h] EXCEPT !.delivers = @ + 1, !.payload = p,
                                   !.chunks = <<>>, !.i = 0, !.timer = 0,
                                   !.sinceDone = 0, !.waited = 0,
                                   !.attempts = <<>>]
          IN IF p = <<>> \/ p[1] = 0
             THEN Await(h, rec, rec.msg, <<Did("deliver"), Did("delivered")>>)
             ELSE Loop(h, [rec EXCEPT !.chunks = chunkText(p[1], chunkLimit)],
                       <<Did("deliver")>>)
    /\ UNCHANGED <<cfgVars, allowStore, pairingStore, challenges, status, stopped, normVars>>

\* monitor.ts:312 the pacing timer fires
TimerFire(h) ==
    /\ hs[h].pc = "delay"
    /\ hs[h].timer = 0
    /\ Send(h, hs[h], <<>>)
    /\ UNCHANGED <<cfgVars, allowStore, pairingStore, challenges, status, stopped, normVars>>

\* monitor.ts:314-323 the chunk's POST settles: status, or the logged error
SendDone(h) ==
    /\ hs[h].pc = "send"
    /\ \E ok \in BOOLEAN :
          /\ status' = StatusAfterSend(ok, status)
          /\ Loop(h, [hs[h] EXCEPT !.i = AfterSend(ok, @), !.sinceDone = 0,
                                   !.attempts[Len(hs[h].attempts)].ok =
                                       IF ok THEN "ok" ELSE "failed"],
                  IF ok THEN <<Did("sendOk"), Did("statusOutbound")>>
                  ELSE <<Did("sendFailed"), Did("error")>>)
    /\ UNCHANGED <<cfgVars, allowStore, pairingStore, challenges, stopped, normVars>>

\* monitor.ts:237-262 the dispatch settles and the handler returns
DispatchDone(h) ==
    /\ hs[h].pc = "dispatch"
    /\ Return(h, hs[h].msg, <<Did("dispatched")>>)
    /\ UNCHANGED <<cfgVars, allowStore, pairingStore, challenges, status, stopped, normVars>>

\* monitor.ts:263-265 the dispatch rejects; the catch block logs
DispatchFail(h) ==
    /\ hs[h].pc = "dispatch"
    /\ Throw(h, hs[h].msg, "dispatch", <<Did("dispatchFailed")>>)
    /\ UNCHANGED <<cfgVars, allowStore, pairingStore, challenges, status, stopped, normVars>>

(***************************************************************************)
(* Time, cancellation, the operator's approval.                            *)
(***************************************************************************)
\* one second passes: timers run down, the delivery's clocks run up
Elapse(rec) ==
    IF rec.pc = "delay"
    THEN [rec EXCEPT !.timer = IF @ > 0 THEN @ - 1 ELSE 0,
                     !.sinceDone = Min(@ + 1, PacingDelay),
                     !.waited = Min(@ + 1, PacingDelay * MaxChunks)]
    ELSE IF rec.pc = "send"
         THEN [rec EXCEPT !.sinceDone = Min(@ + 1, PacingDelay)]
         ELSE rec

Tick ==
    /\ hs' = [h \in Handlers |-> Elapse(hs[h])]
    /\ fx' = NoFx
    /\ sincePost' = IF env.clock /\ sincePost # NoPost
                    THEN <<Min(sincePost[1] + 1, PacingDelay)>>
                    ELSE sincePost
    /\ <<hs', sincePost'>> # <<hs, sincePost>>
    /\ UNCHANGED <<cfgVars, allowStore, pairingStore, challenges, status, stopped, normVars>>

\* monitor.ts:56-60 cleanup()
cleanup ==
    IF stopped
    THEN /\ stopped' = stopped
         /\ Effects(NoFx)
    ELSE /\ stopped' = TRUE
         /\ Effects([h |-> 0, msg |-> NoMsg, ops |-> <<Did("close")>>])

\* monitor.ts:268, channel.ts:269-270 the caller runs the returned cleanup
Stop ==
    /\ cleanup
    /\ UNCHANGED <<cfgVars, allowStore, pairingStore, challenges, status, hs, normVars>>

\* monitor.ts:62 the signal is aborted: the first time the `abort` event is
\* dispatched to the listener, later calls of abort() dispatch nothing
Abort ==
    /\ aborted' = TRUE
    /\ IF aborted
       THEN stopped' = stopped /\ Effects(NoFx)
       ELSE cleanup
    /\ UNCHANGED <<dmPolicy, configAllowFrom, useAccessGroups, env,
                   allowStore, pairingStore, challenges, status, hs, normVars>>

\* channel.ts:97-114 the operator approves a pending request: the entry goes
\* to the allow store through normalizeAllowEntry, notifyApproval posts
Approve(id) ==
    /\ id \in pairingStore
    /\ pairingStore' = pairingStore \ {id}
    /\ allowStore' = allowStore \cup {formatAllowFromEntry(id)}
    /\ LET nodeId == IF normalizeMeshtasticTarget(id) = <<>> THEN id
                     ELSE normalizeMeshtasticTarget(id)
       IN Effects([h |-> 0, msg |-> NoMsg,
                   ops |-> <<Post(nodeId, 0, ApprovalText)>>])
    /\ challenges' = [s \in DOMAIN challenges \ {id} |-> challenges[s]]
    /\ UNCHANGED <<cfgVars, status, stopped, hs, normVars>>

(***************************************************************************)
(* Inputs.                                                                 *)
(***************************************************************************)
Entry_MeshAbC1 == <<"M","E","S","H",":">> \o Id_AbC1

ConfigLists ==
    { <<>>, <<Wildcard>>, <<Id_abc1>>, <<Entry_MeshAbC1>>, <<Id_b2>> }

OptBool == { <<>>, <<TRUE>>, <<FALSE>> }

\* the events the bridge may put on the stream
GateEvents ==
    {Malformed}
    \cup {Msg(f, t, <<>>, <<TRUE>>, <<0>>) :
            f \in {<<>>, Id_abc1, Id_AbC1},
            t \in {<<>>, TextBlank, TextHi, TextControl, TextInline}}
    \cup {Msg(f, TextHi, TypeConnected, <<TRUE>>, <<0>>) : f \in {<<>>, Id_abc1}}
    \cup {Msg(Id_abc1, TextHi, <<>>, <<FALSE>>, <<>>)}
    \cup {Msg(Id_abc1, TextHi, <<>>, d, <<1>>) : d \in {<<>>, <<TRUE>>}}

\* reply bodies by length: none, empty, around each multiple of the limit
ReplyLens ==
    {0, 1}
    \cup {k * chunkLimit : k \in 1..MaxChunks}
    \cup {k * chunkLimit + 1 : k \in 1..(MaxChunks - 1)}
    \cup {n \in {500} : n <= MaxChunks * chunkLimit}

ReplyPayloads == {<<>>} \cup {<<n>> : n \in ReplyLens}

\* the replies of the runs that explore the gate: none, or two chunks
GatePayloads == {<<>>, <<chunkLimit + 1>>}

NormInputs == Padded(Prefixed(Padded({Id_abc1, Id_AbC1, Id_b2}), MaxPrefixes))

AllowInputs ==
    { <<>>, <<Wildcard>>, <<Id_b2, Wildcard>>, <<Id_abc1>>, <<Id_b2, Id_AbC1>>,
      <<Entry_MeshAbC1>>, <<PrefixMesh \o Id_abc1>>,
      <<Id_b2, PrefixMeshtastic \o Id_abc1>>, <<<<" ">> \o Id_abc1 \o <<" ">>>> }

(***************************************************************************)
(* The monitor.                                                            *)
(***************************************************************************)
MonitorStart ==
    /\ allowStore = {}
    /\ pairingStore = {}
    /\ challenges = <<>>
    /\ status = [lastInboundAt |-> "null", lastOutboundAt |-> "null"]
    /\ stopped = FALSE
    /\ hs = [h \in Handlers |-> IdleHandler]
    /\ fx = NoFx
    /\ sincePost = NoPost

NormIdle ==
    /\ nx = <<>>
    /\ nfn = "none"
    /\ nallow = <<>>
    /\ nres = <<>>
    /\ rin = <<>>
    /\ rout = <<>>

Init ==
    /\ dmPolicy \in Policies
    /\ configAllowFrom \in ConfigLists
    /\ useAccessGroups \in BOOLEAN
    /\ env = [events |-> GateEvents, payloads |-> GatePayloads,
              overlap |-> FALSE, clock |-> FALSE]
    /\ aborted = FALSE
    /\ MonitorStart
    /\ NormIdle

Next ==
    \/ \E h \in Handlers, m \in env.events : Arrive(h, m)
    \/ \E h \in Handlers : ReadStoreDone(h)
    \/ \E h \in Handlers : UpsertDone(h)
    \/ \E h \in Handlers : ChallengeDone(h)
    \/ \E h \in Handlers : DispatchDeliver(h)
    \/ \E h \in Handlers : TimerFire(h)
    \/ \E h \in Handlers : SendDone(h)
    \/ \E h \in Handlers : DispatchDone(h)
    \/ \E h \in Handlers : DispatchFail(h)
    \/ Tick
    \/ Stop
    \/ \E id \in pairingStore : Approve(id)

Spec == Init /\ [][Next]_vars

(***************************************************************************)
(* The normalizers and the membership test, applied to drawn inputs.       *)
(***************************************************************************)
Normalizer(fn, x) ==
    IF fn = "normalizeNodeId" THEN normalizeNodeId(x) ELSE formatAllowFromEntry(x)

InitNorm ==
    /\ dmPolicy = "disabled"
    /\ configAllowFrom = <<>>
    /\ useAccessGroups = TRUE
    /\ env = [events |-> {}, payloads |-> {}, overlap |-> FALSE, clock |-> FALSE]
    /\ aborted = FALSE
    /\ MonitorStart
    /\ nx \in {<<x>> : x \in NormInputs}
    /\ nfn \in {"normalizeNodeId", "formatAllowFromEntry"}
    /\ nallow \in AllowInputs
    /\ nres = <<>>
    /\ rin = <<>>
    /\ rout = <<>>

\* the normalizer is applied to the last value
NormApply ==
    /\ Len(nx) < 3
    /\ nx' = Append(nx, Normalizer(nfn, nx[Len(nx)]))
    /\ UNCHANGED <<cfgVars, allowStore, pairingStore, challenges, status, stopped, hs, fx,
                   sincePost,
                   nfn, nallow, nres, rin, rout>>

\* the membership test is applied to the drawn id and list
AllowCheck ==
    /\ nres = <<>>
    /\ nres' = <<isSenderAllowed(nx[1], nallow)>>
    /\ UNCHANGED <<cfgVars, allowStore, pairingStore, challenges, status, stopped, hs, fx,
                   sincePost,
                   nx, nfn, nallow, rin, rout>>

NextNorm == NormApply \/ AllowCheck

SpecNorm == InitNorm /\ [][NextNorm]_vars

(***************************************************************************)
(* Deliveries: every reply length, under the policy that lets every        *)
(* message through.                                                        *)
(***************************************************************************)
DeliverEvents ==
    { Msg(Id_abc1, TextHi, <<>>, <<TRUE>>, <<0>>),
      Msg(Id_abc1, TextHi, <<>>, <<FALSE>>, <<1>>) }

InitDeliver ==
    /\ dmPolicy = "open"
    /\ configAllowFrom = <<>>
    /\ useAccessGroups = TRUE
    /\ env = [events |-> DeliverEvents, payloads |-> ReplyPayloads,
              overlap |-> FALSE, clock |-> FALSE]
    /\ aborted = FALSE
    /\ MonitorStart
    /\ NormIdle

NextDeliver ==
    \/ \E h \in Handlers, m \in env.events : Arrive(h, m)
    \/ \E h \in Handlers : DispatchDeliver(h)
    \/ \E h \in Handlers : TimerFire(h)
    \/ \E h \in Handlers : SendDone(h)
    \/ \E h \in Handlers : DispatchDone(h)
    \/ \E h \in Handlers : DispatchFail(h)
    \/ Tick

SpecDeliver == InitDeliver /\ [][NextDeliver]_vars

(***************************************************************************)
(* Cancellation: the signal may be aborted before the monitor starts, the  *)
(* caller may run the returned cleanup, both any number of times.          *)
(***************************************************************************)
InitAbort ==
    /\ dmPolicy = "open"
    /\ configAllowFrom = <<>>
    /\ useAccessGroups = TRUE
    /\ env = [events |-> DeliverEvents, payloads |-> GatePayloads,
              overlap |-> FALSE, clock |-> FALSE]
    /\ aborted \in BOOLEAN
    /\ MonitorStart
    /\ NormIdle

NextAbort ==
    \/ \E h \in Handlers, m \in env.events : Arrive(h, m)
    \/ \E h \in Handlers : DispatchDeliver(h)
    \/ \E h \in Handlers : TimerFire(h)
    \/ \E h \in Handlers : SendDone(h)
    \/ \E h \in Handlers : DispatchDone(h)
    \/ \E h \in Handlers : DispatchFail(h)
    \/ Tick
    \/ Stop
    \/ Abort

SpecAbort == InitAbort /\ [][NextAbort]_vars

(***************************************************************************)
(* The route mapping, applied to two drawn messages.                       *)
(***************************************************************************)
Name_Brian == <<"B","r","i","a","n">>

Name_brian == <<"b","r","i","a","n">>

RouteMsg(from, fromName, isDirect, channel) ==
    [from |-> from, fromName |-> fromName, isDirect |-> isDirect,
     channel |-> channel]

RouteInputs ==
    {RouteMsg(f, n, d, c) :
        f \in {Id_abc1, Id_b2}, n \in {Name_Brian, Name_brian},
        d \in OptBool, c \in {<<>>} \cup {<<k>> : k \in 0..MaxChannel}}

\* monitor.ts:162-171 what the handler hands to resolveAgentRoute
RouteOf(m) ==
    [chatType |-> chatTypeOf(m), peerId |-> peerIdOf(m),
     channelIndex |-> channelIndexOf(m)]

InitRoute ==
    /\ dmPolicy = "disabled"
    /\ configAllowFrom = <<>>
    /\ useAccessGroups = TRUE
    /\ env = [events |-> {}, payloads |-> {}, overlap |-> FALSE, clock |-> FALSE]
    /\ aborted = FALSE
    /\ MonitorStart
    /\ nx = <<>>
    /\ nfn = "none"
    /\ nallow = <<>>
    /\ nres = <<>>
    /\ rin \in {<<a, b>> : a \in RouteInputs, b \in RouteInputs}
    /\ rout = <<>>

\* the mapping is applied to both messages
RouteApply ==
    /\ rout = <<>>
    /\ rout' = <<RouteOf(rin[1]), RouteOf(rin[2])>>
    /\ UNCHANGED <<cfgVars, allowStore, pairingStore, challenges, status, stopped, hs, fx,
                   sincePost,
                   nx, nfn, nallow, nres, rin>>

NextRoute == RouteApply

SpecRoute == InitRoute /\ [][NextRoute]_vars

(***************************************************************************)
(* Overlapping handlers: onmessage is async, so a second event can start   *)
(* being handled while the first one waits at an await.                    *)
(***************************************************************************)
\* two unapproved senders, each may send again while its first message is
\* still being handled
OverlapEvents ==
    { Msg(f, t, <<>>, <<TRUE>>, <<0>>) :
        f \in {Id_abc1, Id_b2}, t \in {TextHi, TextControl} }

InitOverlap ==
    /\ dmPolicy = "pairing"
    /\ configAllowFrom = <<>>
    /\ useAccessGroups = TRUE
    /\ env = [events |-> OverlapEvents, payloads |-> {<<>>},
              overlap |-> TRUE, clock |-> FALSE]
    /\ aborted = FALSE
    /\ MonitorStart
    /\ NormIdle

NextOverlap ==
    \/ \E h \in Handlers, m \in env.events : Arrive(h, m)
    \/ \E h \in Handlers : ReadStoreDone(h)
    \/ \E h \in Handlers : UpsertDone(h)
    \/ \E h \in Handlers : ChallengeDone(h)

SpecOverlap == InitOverlap /\ [][NextOverlap]_vars

(***************************************************************************)
(* The filters at the head of onmessage, under every policy.               *)
(***************************************************************************)
\* a sender of white space only
Id_blank == <<" ">>

\* connection events, absent, blank and present senders and bodies
FilterEvents ==
    { Msg(f, t, ty, <<TRUE>>, <<0>>) :
        f \in {<<>>, Id_blank, Id_abc1},
        t \in {<<>>, TextBlank, TextHi, TextControl},
        ty \in {<<>>, TypeConnected} }

InitFilter ==
    /\ dmPolicy \in Policies
    /\ configAllowFrom \in {<<>>, <<Wildcard>>}
    /\ useAccessGroups = TRUE
    /\ env = [events |-> FilterEvents, payloads |-> {<<>>, <<1>>},
              overlap |-> FALSE, clock |-> FALSE]
    /\ aborted = FALSE
    /\ MonitorStart
    /\ NormIdle

NextFilter ==
    \/ \E h \in Handlers, m \in env.events : Arrive(h, m)
    \/ \E h \in Handlers : ReadStoreDone(h)
    \/ \E h \in Handlers : UpsertDone(h)
    \/ \E h \in Handlers : ChallengeDone(h)
    \/ \E h \in Handlers : DispatchDeliver(h)
    \/ \E h \in Handlers : SendDone(h)
    \/ \E h \in Handlers : DispatchDone(h)
    \/ \E h \in Handlers : DispatchFail(h)

SpecFilter == InitFilter /\ [][NextFilter]_vars

(***************************************************************************)
(* One node under several spellings of its id, handlers overlapping.       *)
(***************************************************************************)
\* the spellings of one node id: plain, upper case, padded, prefixed
IdentityIds ==
    { Id_abc1, Id_AbC1, <<" ">> \o Id_abc1 \o <<" ">>, PrefixMesh \o Id_abc1 }

IdentityEvents == { Msg(f, TextHi, <<>>, <<TRUE>>, <<0>>) : f \in IdentityIds }

InitIdentity ==
    /\ dmPolicy \in {"open", "pairing"}
    /\ configAllowFrom = <<>>
    /\ useAccessGroups = TRUE
    /\ env = [events |-> IdentityEvents, payloads |-> {<<1>>},
              overlap |-> TRUE, clock |-> FALSE]
    /\ aborted = FALSE
    /\ MonitorStart
    /\ NormIdle

NextIdentity ==
    \/ \E h \in Handlers, m \in env.events : Arrive(h, m)
    \/ \E h \in Handlers : ReadStoreDone(h)
    \/ \E h \in Handlers : UpsertDone(h)
    \/ \E h \in Handlers : ChallengeDone(h)
    \/ \E h \in Handlers : DispatchDeliver(h)
    \/ \E h \in Handlers : SendDone(h)
    \/ \E h \in Handlers : DispatchDone(h)

SpecIdentity == InitIdentity /\ [][NextIdentity]_vars

(***************************************************************************)
(* Two replies under way at once: the dispatch of a second event starts    *)
(* while the first delivery waits at its send or at its pacing timer.      *)
(***************************************************************************)
InitInterleave ==
    /\ dmPolicy = "open"
    /\ configAllowFrom = <<>>
    /\ useAccessGroups = TRUE
    /\ env = [events |-> DeliverEvents, payloads |-> {<<chunkLimit + 1>>},
              overlap |-> TRUE, clock |-> FALSE]
    /\ aborted = FALSE
    /\ MonitorStart
    /\ NormIdle

NextInterleave ==
    \/ \E h \in Handlers, m \in env.events : Arrive(h, m)
    \/ \E h \in Handlers : DispatchDeliver(h)
    \/ \E h \in Handlers : TimerFire(h)
    \/ \E h \in Handlers : SendDone(h)
    \/ \E h \in Handlers : DispatchDone(h)
    \/ Tick

SpecInterleave == InitInterleave /\ [][NextInterleave]_vars

(***************************************************************************)
(* The account's transmissions against one clock: replies, their chunks    *)
(* and pairing challenges, with handlers overlapping.                      *)
(***************************************************************************)
PacingEvents ==
    { Msg(f, TextHi, <<>>, <<TRUE>>, <<0>>) : f \in {Id_abc1, Id_b2} }

InitPacing ==
    /\ dmPolicy \in {"open", "pairing"}
    /\ configAllowFrom = <<>>
    /\ useAccessGroups = TRUE
    /\ env = [events |-> PacingEvents, payloads |-> {<<chunkLimit + 1>>},
              overlap |-> TRUE, clock |-> TRUE]
    /\ aborted = FALSE
    /\ MonitorStart
    /\ NormIdle

NextPacing ==
    \/ \E h \in Handlers, m \in env.events : Arrive(h, m)
    \/ \E h \in Handlers : ReadStoreDone(h)
    \/ \E h \in Handlers : UpsertDone(h)
    \/ \E h \in Handlers : ChallengeDone(h)
    \/ \E h \in Handlers : DispatchDeliver(h)
    \/ \E h \in Handlers : TimerFire(h)
    \/ \E h \in Handlers : SendDone(h)
    \/ \E h \in Handlers : DispatchDone(h)
    \/ Tick

SpecPacing == InitPacing /\ [][NextPacing]_vars

(***************************************************************************)
(* The texts handed to POST /send, by path.  A text is its length in       *)
(* UTF-16 code units (String.prototype.length) and the number of those     *)
(* units that are three-byte characters, which stand at its start.         *)
(***************************************************************************)
Text(units, wide) == [units |-> units, wide |-> wide]

\* the length of a text in UTF-8 bytes
Bytes(t) == t.units + 2 * t.wide

\* String.prototype.slice(0, n): the first n code units
slice(t, n) == Text(Min(t.units, n), Min(t.wide, n))

\* channel.ts:195 text.slice(0, 230)
mediaTextLimit == 230

\* channel.ts:108 the approval notice: one check mark and 49 ASCII characters
ApprovalNotice == Text(50, 1)

\* channel.ts:164-176 sendText posts the text it is given
sendText(t) == <<Bytes(t)>>

\* channel.ts:188-199 sendMedia posts the text fallback, if there is one
sendMedia(t) ==
    IF t.units = 0 THEN <<>> ELSE <<Bytes(slice(t, mediaTextLimit))>>

\* channel.ts:100-111 notifyApproval posts the notice
notifyApproval == <<Bytes(ApprovalNotice)>>

\* monitor.ts:303-319 deliverMeshtasticReply posts the chunks of the text
deliverMeshtasticReply(t) ==
    LET chunks == chunkText(Bytes(t), chunkLimit)
    IN [k \in 1..Len(chunks) |-> chunks[k].hi - chunks[k].lo + 1]

\* the byte lengths a path hands to the bridge for a text
PostedBy(path, t) ==
    CASE path = "sendText" -> sendText(t)
      [] path = "sendMedia" -> sendMedia(t)
      [] path = "notifyApproval" -> notifyApproval
      [] path = "deliver" -> deliverMeshtasticReply(t)

TextUnits ==
    {0, 1, 2, chunkLimit - 1, chunkLimit, chunkLimit + 1, 2 * chunkLimit,
     2 * chunkLimit + 1, 500}

\* texts of ASCII only, with one wide character, of wide characters only
SendTexts ==
    {t \in [units : TextUnits, wide : TextUnits] :
        t.wide <= t.units /\ t.wide \in {0, 1, t.units}}

SendInputs ==
    {[path |-> p, text |-> t] :
        p \in {"sendText", "sendMedia", "deliver"}, t \in SendTexts}
    \cup {[path |-> "notifyApproval", text |-> ApprovalNotice]}

InitSend ==
    /\ dmPolicy = "disabled"
    /\ configAllowFrom = <<>>
    /\ useAccessGroups = TRUE
    /\ env = [events |-> {}, payloads |-> {}, overlap |-> FALSE, clock |-> FALSE]
    /\ aborted = FALSE
    /\ MonitorStart
    /\ nx = <<>>
    /\ nfn = "none"
    /\ nallow = <<>>
    /\ nres = <<>>
    /\ rin \in SendInputs
    /\ rout = <<>>

\* the path is run on the drawn text
SendApply ==
    /\ rout = <<>>
    /\ rout' = <<PostedBy(rin.path, rin.text)>>
    /\ UNCHANGED <<cfgVars, allowStore, pairingStore, challenges, status, stopped, hs, fx,
                   sincePost,
                   nx, nfn, nallow, nres, rin>>

NextSend == SendApply

SpecSend == InitSend /\ [][NextSend]_vars

(***************************************************************************)
(* The reply address the handler records, read back by the outbound path.  *)
(***************************************************************************)
\* monitor.ts:194 replyTo
replyToOf(m) ==
    IF isDirectOf(m) THEN m.from ELSE ChannelPeer(channelIndexOf(m))

\* monitor.ts:203, 216 To and OriginatingTo: `meshtastic:${replyTo}`
OriginatingTo(m) == PrefixMeshtastic \o replyToOf(m)

IsDigit(ch) == \E d \in 1..Len(DigitChars) : DigitChars[d] = ch

DigitValue(ch) == (CHOOSE d \in 1..Len(DigitChars) : DigitChars[d] = ch) - 1

\* parseInt(digits, 10)
RECURSIVE parseInt(_)
parseInt(digits) ==
    IF digits = <<>> THEN 0
    ELSE 10 * parseInt(SubSeq(digits, 1, Len(digits) - 1))
            + DigitValue(digits[Len(digits)])

\* the position of the colon that ends the digits of /^ch(\d+):(.+)$/, or 0
\* when the target does not match
chMatch(to) ==
    IF /\ Len(to) >= 5
       /\ SubSeq(to, 1, 2) = <<"c", "h">>
       /\ \E j \in 4..(Len(to) - 1) :
             /\ to[j] = ":"
             /\ \A k \in 3..(j - 1) : IsDigit(to[k])
    THEN CHOOSE j \in 4..(Len(to) - 1) :
             to[j] = ":" /\ \A k \in 3..(j - 1) : IsDigit(to[k])
    ELSE 0

\* channel.ts:166-175 the `to` and `channelIndex` sendText posts for a target
sendTextTarget(to) ==
    LET j == chMatch(to)
    IN IF j # 0
       THEN [to |-> SubSeq(to, j + 1, Len(to)),
             channelIndex |-> parseInt(SubSeq(to, 3, j - 1))]
       ELSE [to |-> to, channelIndex |-> 0]

\* channel.ts:117, 164 the recorded address through normalizeTarget and
\* sendText
AddressedBy(m) == sendTextTarget(normalizeMeshtasticTarget(OriginatingTo(m)))

\* monitor.ts:246-247 the target and channel of the handler's own delivery
DeliveredTo(m) == [to |-> toNodeIdOf(m), channelIndex |-> channelIndexOf(m)]

AddressInputs ==
    {RouteMsg(f, n, d, c) :
        f \in {Id_abc1, Id_AbC1, Id_b2}, n \in {Name_Brian, Name_brian},
        d \in OptBool, c \in {<<>>} \cup {<<k>> : k \in 0..MaxChannel}}

InitAddress ==
    /\ dmPolicy = "disabled"
    /\ configAllowFrom = <<>>
    /\ useAccessGroups = TRUE
    /\ env = [events |-> {}, payloads |-> {}, overlap |-> FALSE, clock |-> FALSE]
    /\ aborted = FALSE
    /\ MonitorStart
    /\ nx = <<>>
    /\ nfn = "none"
    /\ nallow = <<>>
    /\ nres = <<>>
    /\ rin \in AddressInputs
    /\ rout = <<>>

\* the message's address is recorded, and read back by the outbound path
AddressApply ==
    /\ rout = <<>>
    /\ rout' = <<[recorded |-> OriginatingTo(rin),
                  outbound |-> AddressedBy(rin),
                  delivery |-> DeliveredTo(rin)]>>
    /\ UNCHANGED <<cfgVars, allowStore, pairingStore, challenges, status, stopped, hs, fx,
                   sincePost,
                   nx, nfn, nallow, nres, rin>>

NextAddress == AddressApply

SpecAddress == InitAddress /\ [][NextAddress]_vars

(***************************************************************************)
(* The vocabulary of the properties.  The specification's AllowSet         *)
(* membership: an entry admits a sender when it is the wildcard or when    *)
(* both normalize (trim, lower-case, channel prefix dropped) to the same   *)
(* id.                                                                     *)
(***************************************************************************)
SpecNormalize(x) == stripChannelPrefix(toLowerCase(trim(x)))

InAllowSet(sender, list) ==
    \/ \E i \in 1..Len(list) : list[i] = Wildcard
    \/ \E i \in 1..Len(list) : SpecNormalize(list[i]) = SpecNormalize(sender)

\* configured entries and pairing-approved entries
AllowSetNow == configAllowFrom \o SetToSeq(allowStore)

\* the last step called resolveAgentRoute or the dispatcher
Routed == HasOp("routeDirect") \/ HasOp("routeGroup") \/ HasOp("dispatch")

\* a handler is past the gates
PastGate(h) == hs[h].pc \in {"dispatch", "delay", "send"}

\* the event is a message with a sender and a body
IsContent(m) ==
    m.parse /\ m.type # TypeConnected /\ m.from # <<>> /\ m.text # <<>>

\* C1: route resolution and dispatch are reached only when the policy is not
\* `disabled` and either the policy is `open` or the sender is in the
\* effective AllowSet (or the set holds the wildcard); under `pairing` the
\* steps that create the request and that settle the challenge's send, ok or
\* failed, never go on to routing
C1_RoutedOnlyIfAdmitted ==
    /\ Routed =>
          /\ dmPolicy # "disabled"
          /\ dmPolicy = "open" \/ InAllowSet(fx.msg.from, AllowSetNow)
    /\ \A h \in Handlers :
          PastGate(h) =>
             /\ dmPolicy # "disabled"
             /\ dmPolicy = "open" \/ InAllowSet(hs[h].msg.from, AllowSetNow)
    /\ (HasOp("upsert") \/ HasOp("upserted") \/ HasOp("challengeSent")
            \/ HasOp("challengeFailed")) =>
          /\ dmPolicy = "pairing"
          /\ ~Routed
          /\ hs[fx.h].pc \in {"idle", "upsert", "challenge"}

\* under `pairing`, a sender the operator approved is dispatched
C1_Witness ==
    /\ dmPolicy = "pairing"
    /\ configAllowFrom = <<>>
    /\ HasOp("dispatch")
    /\ fx.msg.from = Id_abc1

\* C2: under `disabled` no message causes a POST /send, a pairing request, a
\* store read, a route resolution or a dispatch: the handler only records the
\* receipt and returns
C2_DisabledDoesNothing ==
    dmPolicy = "disabled" =>
       /\ \A k \in 1..Len(fx.ops) :
             fx.ops[k].op \in {"statusInbound", "error", "close"}
       /\ pairingStore = {}
       /\ allowStore = {}
       /\ status.lastOutboundAt = "null"
       /\ \A h \in Handlers : hs[h].pc = "idle"

\* under `disabled`, a message of a sender the wildcard admits was handled
C2_Witness ==
    /\ dmPolicy = "disabled"
    /\ configAllowFrom = <<Wildcard>>
    /\ fx.h # 0
    /\ fx.msg.from = Id_abc1
    /\ fx.msg.text = TextHi
    /\ HasOp("statusInbound")

\* the sender of the last handled message is outside the AllowSet
NotAdmitted(m) == IsContent(m) /\ ~InAllowSet(m.from, AllowSetNow)

\* C3 as stated: under `allowlist` a step that handles a message of a sender
\* outside the AllowSet posts nothing, creates no pairing request, records no
\* session metadata and changes no status field
C3_Original ==
    [][ (dmPolicy = "allowlist" /\ fx'.h # 0 /\ NotAdmitted(fx'.msg)) =>
           /\ \A k \in 1..Len(fx'.ops) :
                 fx'.ops[k].op \in {"readStore", "storeRead", "storeReadFailed",
                                    "cmdAuthorized", "cmdUnauthorized",
                                    "logBlocked"}
           /\ pairingStore' = pairingStore
           /\ allowStore' = allowStore
           /\ status' = status ]_vars

\* C3: under `allowlist` a step that handles a message of a sender outside
\* the AllowSet posts nothing, creates no pairing request, records no session
\* metadata and leaves lastOutboundAt alone; it sets lastInboundAt on receipt,
\* reads the allow store and logs the blocked sender
C3_AllowlistDrop ==
    [][ (dmPolicy = "allowlist" /\ fx'.h # 0 /\ NotAdmitted(fx'.msg)) =>
           /\ \A k \in 1..Len(fx'.ops) :
                 fx'.ops[k].op \in {"statusInbound", "readStore", "storeRead",
                                    "storeReadFailed", "cmdAuthorized",
                                    "cmdUnauthorized", "logBlocked"}
           /\ pairingStore' = pairingStore
           /\ allowStore' = allowStore
           /\ status'.lastOutboundAt = status.lastOutboundAt
           /\ status'.lastInboundAt = "set"
           /\ hs'[fx'.h].pc \in {"idle", "readStore"} ]_vars

\* under `allowlist`, a sender the list does not hold was logged as blocked
C3_Witness ==
    /\ dmPolicy = "allowlist"
    /\ configAllowFrom = <<Id_b2>>
    /\ HasOp("logBlocked")
    /\ fx.msg.from = Id_abc1
    /\ status = [lastInboundAt |-> "set", lastOutboundAt |-> "null"]

\* the ids messages come from
SenderIds == {m.from : m \in {e \in env.events : IsContent(e)}}

\* the challenges a sequence of effects posts to a sender
ChallengesTo(ops, s) ==
    {k \in 1..Len(ops) : /\ ops[k].op = "post"
                         /\ ops[k].text = PairingText(s)
                         /\ ops[k].to = s}

\* every POST of a sequence of effects
PostsIn(ops) == {k \in 1..Len(ops) : ops[k].op = "post"}

\* C4: under `pairing`, with messages handled one after another, the step
\* that creates the sender's pairing record creates that one record and posts
\* exactly one challenge to the sender; a step that handles a message of a
\* sender whose request is pending posts nothing; no other step posts a
\* challenge
C4_OneChallengePerRequest ==
    [][ \A s \in SenderIds :
           LET creates == s \notin pairingStore /\ s \in pairingStore'
           IN /\ creates =>
                    /\ pairingStore' = pairingStore \cup {s}
                    /\ fx'.h # 0 /\ fx'.msg.from = s
                    /\ Cardinality(ChallengesTo(fx'.ops, s)) = 1
                    /\ Cardinality(PostsIn(fx'.ops)) = 1
              /\ ~creates => ChallengesTo(fx'.ops, s) = {}
              /\ (s \in pairingStore /\ fx'.h # 0 /\ fx'.msg.from = s
                     /\ hs[fx'.h].pc \in {"idle", "readStore", "upsert"}) =>
                    /\ PostsIn(fx'.ops) = {}
                    /\ s \in pairingStore'
              /\ (dmPolicy = "pairing" /\ fx'.h # 0 /\ fx'.msg.from = s
                     /\ hs[fx'.h].pc = "upsert" /\ fx'.ops # <<Did("error")>>) =>
                    s \in pairingStore' ]_vars

\* a later message of a sender whose request is pending: the upsert settled
\* and nothing was posted
C4_Witness ==
    /\ dmPolicy = "pairing"
    /\ HasOp("upserted")
    /\ ~HasOp("post")
    /\ fx.msg.from = Id_abc1
    /\ Id_abc1 \in pairingStore

\* the last step ended the handling of a message that has a sender, a
\* non-blank body and is not the stream's `connected` greeting
HandledBody ==
    /\ fx.h # 0
    /\ hs[fx.h].pc = "idle"
    /\ IsContent(fx.msg)
    /\ trim(fx.msg.text) # <<>>

\* the handling got as far as route resolution
ReachedRoute == Routed \/ HasOp("dispatched") \/ HasOp("dispatchFailed")

\* C5 as stated: under `open` every message with a sender and a body proceeds
\* to route resolution
C5_Original == (dmPolicy = "open" /\ HandledBody) => ReachedRoute

\* C5: under `open` every message with a sender and a non-blank body proceeds
\* to route resolution whoever the sender is, unless it is a control command
\* that is not command-authorized, which is dropped with a log entry
C5_OpenRoutes ==
    (dmPolicy = "open" /\ HandledBody) =>
       \/ ReachedRoute
       \/ /\ isControlCommandMessage(trim(fx.msg.text))
          /\ HasOp("logDropControl")
          /\ ~HasOp("logBlocked")

\* under `open`, a sender the AllowSet does not hold reached route resolution
C5_Witness ==
    /\ dmPolicy = "open"
    /\ configAllowFrom = <<Id_b2>>
    /\ allowStore = {}
    /\ HasOp("routeDirect")
    /\ fx.msg.from = Id_abc1

\* C6 as stated: each normalizer (normalizeNodeId, formatAllowFromEntry)
\* drops a leading mesh: / meshtastic: prefix, trims and lower-cases, so that
\* a second application changes nothing and "MESH:!AbC1" and "!abc1" both
\* become "!abc1"
C6_Claim ==
    /\ Len(nx) = 3 => nx[3] = nx[2]
    /\ (Len(nx) >= 2 /\ nx[1] \in {Entry_MeshAbC1, Id_abc1}) => nx[2] = Id_abc1
    /\ Len(nx) >= 2 => nx[2] = SpecNormalize(nx[2])

\* C7 as stated: isSenderAllowed is true exactly when the list holds the
\* wildcard or an entry whose normalized form (prefix dropped, trimmed,
\* lower-cased) equals the normalized sender, so that `MESH:!AbC1` admits
\* `!abc1`
C7_Claim == nres # <<>> => (nres[1] <=> InAllowSet(nx[1], nallow))

\* the chunk indices a delivery has attempted, in order (from 0)
AttemptIndices(h) == [k \in 1..Len(hs[h].attempts) |-> hs[h].attempts[k].i]

UpTo(n) == [k \in 1..n |-> k - 1]

\* the last step was handler h's call of sendMeshtasticMessage
Posting(h) == fx.h = h /\ HasOp("post") /\ hs[h].pc = "send"

\* the last step ended a deliverMeshtasticReply of handler h
Delivered(h) == fx.h = h /\ HasOp("delivered")

\* C8: a delivery sends its chunks in order, one at a time; the first chunk
\* is sent at once; chunk N+1 is sent only when the attempt of chunk N has
\* settled and 3 more seconds have passed, so that a reply of three chunks
\* takes at least 6 seconds of waiting
C8_Pacing ==
    \A h \in Handlers :
       /\ Posting(h) =>
             LET i == hs[h].i
             IN /\ Cardinality(PostsIn(fx.ops)) = 1
                /\ AttemptIndices(h) = UpTo(i + 1)
                /\ \A k \in 1..i : hs[h].attempts[k].ok # "pending"
                /\ i = 0 => hs[h].waited = 0 /\ HasOp("deliver")
                /\ i > 0 => /\ hs[h].sinceDone >= 3
                            /\ hs[h].waited >= 3 * i
                            /\ ~HasOp("sendOk") /\ ~HasOp("sendFailed")
       /\ (Delivered(h) /\ Len(hs[h].chunks) = 3) => hs[h].waited >= 6

\* a reply of three chunks was delivered after exactly 6 seconds of waiting
C8_Witness ==
    \E h \in Handlers :
       /\ Delivered(h)
       /\ Len(hs[h].chunks) = 3
       /\ hs[h].waited = 6

\* C9: a chunk whose send fails is logged, not retried, and does not end the
\* delivery: every chunk 1..k is attempted exactly once, in order, and the
\* delivery returns to the dispatcher without raising
C9_FailuresDoNotAbort ==
    \A h \in Handlers :
       /\ hs[h].pc \in {"delay", "send"} =>
             /\ AttemptIndices(h) =
                   UpTo(IF hs[h].pc = "send" THEN hs[h].i + 1 ELSE hs[h].i)
             /\ hs[h].i < Len(hs[h].chunks)
       /\ Delivered(h) =>
             /\ hs[h].pc = "dispatch"
             /\ AttemptIndices(h) = UpTo(Len(hs[h].chunks))
             /\ \A k \in 1..Len(hs[h].attempts) :
                   /\ hs[h].attempts[k].text = hs[h].chunks[k]
                   /\ hs[h].attempts[k].ok \in {"ok", "failed"}
             /\ ~HasOp("dispatchFailed")
       /\ (fx.h = h /\ HasOp("sendFailed")) =>
             /\ HasOp("error")
             /\ hs[h].pc \in {"delay", "dispatch"}
             /\ hs[h].pc = "dispatch" <=> HasOp("delivered")
             /\ hs[h].attempts[Len(hs[h].attempts)].ok = "failed"

\* a reply of three chunks was delivered although the send of its second
\* chunk failed
C9_Witness ==
    \E h \in Handlers :
       /\ Delivered(h)
       /\ Len(hs[h].attempts) = 3
       /\ hs[h].attempts[2].ok = "failed"
       /\ hs[h].attempts[3].ok = "ok"

\* C10: every chunk posted has at most 230 bytes and the chunks, in order,
\* are the body cut at consecutive positions (500 bytes make 3 chunks); a
\* reply without a body, or with an empty one, posts nothing and returns
\* normally
C10_Chunking ==
    \A h \in Handlers :
       /\ \A k \in PostsIn(fx.ops) :
             fx.ops[k].text.kind = "chunk" =>
                /\ fx.ops[k].text.lo <= fx.ops[k].text.hi
                /\ fx.ops[k].text.hi - fx.ops[k].text.lo + 1 <= 230
       /\ Posting(h) =>
             \E k \in PostsIn(fx.ops) :
                fx.ops[k].text = hs[h].attempts[Len(hs[h].attempts)].text
       /\ Delivered(h) =>
             LET a == hs[h].attempts
                 p == hs[h].payload
             IN IF p = <<>> \/ p[1] = 0
                THEN /\ a = <<>>
                     /\ ~HasOp("post") /\ ~HasOp("error")
                     /\ hs[h].pc = "dispatch"
                ELSE /\ a # <<>>
                     /\ a[1].text.lo = 1
                     /\ a[Len(a)].text.hi = p[1]
                     /\ \A k \in 1..(Len(a) - 1) :
                           a[k + 1].text.lo = a[k].text.hi + 1
                     /\ p[1] = 500 => Len(a) = 3

\* a reply of 500 bytes was delivered in three chunks
C10_Witness ==
    \E h \in Handlers :
       /\ Delivered(h)
       /\ hs[h].payload = <<500>>
       /\ Len(hs[h].attempts) = 3

\* the direct flag of a message is set
FlagSet(m) == m.isDirect = <<TRUE>>

\* the channel index a message carries, 0 when it carries none
CarriedChannel(m) == IF m.channel = <<>> THEN 0 ELSE m.channel[1]

\* C11: the route is a function of the message: chatType is `direct` iff the
\* direct flag is set, else `group`; two broadcast messages with different
\* channel indices get different peer keys; two direct messages of the same
\* sender id get the same peer key whatever their display names; a missing
\* channel index counts as 0 and a missing direct flag as broadcast
C11_RouteMapping ==
    rout # <<>> =>
       /\ \A k \in 1..2 :
             /\ rout[k].chatType = IF FlagSet(rin[k]) THEN "direct" ELSE "group"
             /\ rout[k].channelIndex = CarriedChannel(rin[k])
             /\ rin[k].isDirect = <<>> => rout[k].chatType = "group"
             /\ rin[k].channel = <<>> => rout[k].channelIndex = 0
             /\ FlagSet(rin[k]) => rout[k].peerId = rin[k].from
       /\ (~FlagSet(rin[1]) /\ ~FlagSet(rin[2])) =>
             (rout[1].peerId = rout[2].peerId
                 <=> CarriedChannel(rin[1]) = CarriedChannel(rin[2]))
       /\ (FlagSet(rin[1]) /\ FlagSet(rin[2]) /\ rin[1].from = rin[2].from) =>
             rout[1].peerId = rout[2].peerId
       /\ (rin[1].from = rin[2].from /\ rin[1].isDirect = rin[2].isDirect
              /\ rin[1].channel = rin[2].channel) => rout[1] = rout[2]

\* two broadcast messages, one without a channel index and one on channel 1,
\* and two peer keys
C11_Witness ==
    /\ rout # <<>>
    /\ rin[1].isDirect = <<>> /\ rin[1].channel = <<>>
    /\ rin[2].isDirect = <<FALSE>> /\ rin[2].channel = <<1>>
    /\ rout[1].peerId = ChannelPeer(0)
    /\ rout[2].peerId = ChannelPeer(1)

\* the chunks of a reply the last step posted
ChunkPosts == {k \in PostsIn(fx.ops) : fx.ops[k].text.kind = "chunk"}

\* C12: every chunk of a reply goes to the reply target of the message that
\* caused it: the sender's node id for a direct message, the broadcast target
\* for a group/channel message, with the channel index of the inbound
\* message (0 when it carried none)
C12_ReplyTarget ==
    /\ \A k \in ChunkPosts :
          /\ fx.h # 0
          /\ fx.ops[k].to = IF FlagSet(fx.msg) THEN fx.msg.from
                             ELSE BroadcastTarget
          /\ fx.ops[k].channelIndex = CarriedChannel(fx.msg)
          /\ fx.msg = hs[fx.h].msg
    /\ \A h \in Handlers :
          PastGate(h) =>
             /\ hs[h].toNodeId = IF FlagSet(hs[h].msg) THEN hs[h].msg.from
                                  ELSE BroadcastTarget
             /\ hs[h].channelIndex = CarriedChannel(hs[h].msg)

\* the second chunk of the reply to a message that carried no direct flag,
\* on channel 1, went to the broadcast target on channel 1
C12_Witness ==
    /\ fx.h # 0
    /\ fx.msg.isDirect = <<>>
    /\ fx.msg.channel = <<1>>
    /\ hs[fx.h].i = 1
    /\ \E k \in ChunkPosts :
          fx.ops[k].to = BroadcastTarget /\ fx.ops[k].channelIndex = 1

\* the body of the last handled message is a control command
IsControl == isControlCommandMessage(trim(fx.msg.text))

\* C13: a control command whose sender is not command-authorized never
\* reaches route resolution or dispatch, under every policy that lets the
\* message pass the gate, `open` included; a control command of an
\* authorized sender is not dropped by this step
C13_ControlCommandGate ==
    /\ (fx.h # 0 /\ IsControl /\ Routed) => HasOp("cmdAuthorized")
    /\ \A h \in Handlers :
          (PastGate(h) /\ isControlCommandMessage(trim(hs[h].msg.text))) =>
             hs[h].commandAuthorized = <<TRUE>>
    /\ HasOp("logDropControl") =>
          /\ IsControl
          /\ ~HasOp("cmdAuthorized")
          /\ ~ReachedRoute
          /\ hs[fx.h].pc = "idle"
    /\ (fx.h # 0 /\ IsControl /\ HasOp("cmdAuthorized")) =>
          \/ Routed
          \/ HasOp("logBlocked") \/ HasOp("upsert")

\* under `open`, with an allow list that does not hold the sender, a control
\* command was dropped before routing
C13_Witness ==
    /\ dmPolicy = "open"
    /\ configAllowFrom = <<Id_b2>>
    /\ fx.msg.from = Id_abc1
    /\ fx.msg.text = TextControl
    /\ HasOp("cmdUnauthorized")
    /\ HasOp("logDropControl")

\* C14 as stated: whenever the abort signal is aborted, also when it was
\* aborted before the monitor started, the stream is closed and no event
\* starts processing; the stream is closed at most once
C14_Claim ==
    /\ aborted => stopped
    /\ aborted => ~(fx.h # 0 /\ HasOp("statusInbound"))
    /\ HasOp("close") => stopped

\* the last step handled a failure
Failed == fx.h # 0 /\ (HasOp("error") \/ HasOp("storeReadFailed"))

\* C15: no error raised while handling an event ends the stream or escapes
\* the handler: after an unparseable payload, a failed store read, a failed
\* upsert, a failed route call, a failed dispatch or a failed send the
\* stream is open, the handler has returned or goes on, and the next event
\* can be handled; only cleanup closes the stream
C15_ErrorsContained ==
    [][ /\ stopped' # stopped => fx'.h = 0 /\ fx'.ops = <<Did("close")>>
        /\ \A h \in Handlers : hs'[h].pc # "crashed"
        /\ \A k \in 1..Len(fx'.ops) : fx'.ops[k].op # "unhandled"
        /\ (Failed /\ ~stopped) =>
              \/ \E h \in Handlers, m \in env.events : ENABLED Arrive(h, m)
              \/ hs[fx.h].pc \in {"upsert", "dispatch", "delay", "send"}
      ]_vars

\* an unparseable payload was logged and the stream is open for the next
\* event
C15_Witness ==
    /\ fx.h # 0
    /\ fx.msg = Malformed
    /\ fx.ops = <<Did("error")>>
    /\ ~stopped
    /\ \A m \in env.events : ENABLED Arrive(1, m)

\* a handler is still awaiting the challenge's POST for sender s
ChallengeInFlight(s) ==
    \E h \in Handlers : hs[h].pc = "challenge" /\ hs[h].msg.from = s

\* C16: for every pending sender exactly one challenge transmission has
\* succeeded: never two, and, once no challenge is in flight, never zero
C16_Claim ==
    \A s \in pairingStore :
        /\ s \in DOMAIN challenges
        /\ challenges[s].ok <= 1
        /\ ~ChallengeInFlight(s) => challenges[s].ok = 1

\* the last step caught a failed challenge POST
ChallengeFailed == fx.h # 0 /\ HasOp("challengeFailed")

\* C17: a failed challenge POST is caught: the step that catches it leaves
\* the pending records as they are, leaves lastOutboundAt as it was,
\* returns the handler normally and keeps the stream open, and after it the
\* next inbound event can be handled
C17_ChallengeFailureCaught ==
    [][ /\ ChallengeFailed' =>
              /\ pairingStore' = pairingStore
              /\ status'.lastOutboundAt = status.lastOutboundAt
              /\ hs'[fx'.h].pc = "idle"
              /\ ~HasOp("unhandled")'
              /\ stopped' = stopped
        /\ (ChallengeFailed /\ ~stopped) =>
              \A m \in env.events : ENABLED Arrive(fx.h, m)
      ]_vars

\* a first challenge failed at the transport: the request is pending,
\* nothing was ever sent, and the handler is free for the next event
C17_Witness ==
    /\ ChallengeFailed
    /\ fx.msg.from \in pairingStore
    /\ status.lastOutboundAt = "null"
    /\ hs[fx.h].pc = "idle"
    /\ ~stopped
    /\ \A m \in env.events : ENABLED Arrive(fx.h, m)

\* the handlers awaiting the challenge's POST for sender s
Challenging(s) ==
    {h \in Handlers : hs[h].pc = "challenge" /\ hs[h].msg.from = s}

\* C18: with overlapping handlers and an upsert that reports `created` to
\* one caller only, no pending sender is sent a second challenge in any
\* interleaving: a challenge is posted only by the step whose upsert created
\* the request
C18_AtMostOneChallenge ==
    [][ /\ \A s \in DOMAIN challenges' : challenges'[s].sent <= 1
        /\ \A s \in pairingStore' : Cardinality(Challenging(s)') <= 1
        /\ (fx'.h # 0 /\ HasOp("post")') =>
              /\ HasOp("upserted")'
              /\ fx'.msg.from \notin pairingStore
              /\ fx'.msg.from \in pairingStore'
      ]_vars

\* while the first handler awaits its challenge's POST, the second handler's
\* upsert for the same sender returned without posting anything
C18_Witness ==
    /\ env.overlap
    /\ hs[1].pc = "challenge"
    /\ fx.h = 2
    /\ fx.msg.from = hs[1].msg.from
    /\ HasOp("upserted")
    /\ ~HasOp("post")
    /\ challenges[fx.msg.from].sent = 1

\* an event the filters are to drop: a connection event, or a sender or a
\* body that is empty after trimming
Filtered(m) ==
    /\ m.parse
    /\ \/ m.type = TypeConnected
       \/ trim(m.from) = <<>>
       \/ trim(m.text) = <<>>

\* C19: a connection event, an event whose sender is empty after trimming
\* and an event whose body is empty after trimming are dropped at once: no
\* store read, no pairing request, no command authorization, no route, no
\* dispatch and no send is made for them
C19_Claim ==
    (fx.h # 0 /\ Filtered(fx.msg)) =>
        /\ \A k \in 1..Len(fx.ops) : fx.ops[k].op = "statusInbound"
        /\ hs[fx.h].pc = "idle"

\* the body of the last step's message needs command authorization
NeedsAuth == shouldComputeCommandAuthorized(trim(fx.msg.text))

\* C20: the allow store is read for a message only when the policy is not
\* open or the message needs command authorization, and never under
\* disabled; a read that fails is not an error: the handler goes on and
\* decides as with an empty store, on the configured entries alone
C20_LazyStoreRead ==
    /\ (fx.h # 0 /\ HasOp("readStore")) =>
          /\ dmPolicy # "disabled"
          /\ dmPolicy # "open" \/ NeedsAuth
    /\ (fx.h # 0 /\ HasOp("storeReadFailed")) =>
          /\ ~HasOp("unhandled")
          /\ hs[fx.h].pc # "crashed"
          /\ hs[fx.h].pc # "idle" => hs[fx.h].storeAllowFrom = <<>>
          /\ (HasOp("upsert") \/ HasOp("logBlocked")) <=>
                GateBlocks(dmPolicy,
                           isSenderAllowed(fx.msg.from, configAllowFrom))

\* under open a message with an inline command had the store read, the
\* read failed, and the message went on to the agent
C20_Witness ==
    /\ fx.h # 0
    /\ dmPolicy = "open"
    /\ NeedsAuth
    /\ HasOp("storeReadFailed")
    /\ HasOp("dispatch")

\* two spellings of one node id: equal after trimming, lower-casing and
\* dropping the channel prefix
SameNode(a, b) == SpecNormalize(a) = SpecNormalize(b)

\* C21: the sender id is normalized at every use: messages whose sender ids
\* are spellings of one node id use one pairing-record key, resolve to one
\* direct peer key and are replied to at one target id
C21_Claim ==
    /\ \A a, b \in pairingStore : SameNode(a, b) => a = b
    /\ \A g, h \in Handlers :
          (/\ PastGate(g) /\ PastGate(h)
           /\ isDirectOf(hs[g].msg) /\ isDirectOf(hs[h].msg)
           /\ SameNode(hs[g].msg.from, hs[h].msg.from)) =>
              /\ peerIdOf(hs[g].msg) = peerIdOf(hs[h].msg)
              /\ hs[g].toNodeId = hs[h].toNodeId

\* handler g is inside a reply of several chunks: a chunk of it has been
\* handed to the bridge and another one is still to come
MidReply(g) ==
    /\ hs[g].pc \in {"delay", "send"}
    /\ Len(hs[g].chunks) > 1
    /\ Len(hs[g].attempts) >= 1
    /\ Len(hs[g].attempts) < Len(hs[g].chunks)

\* the deliveries of g and h go to one target on one channel
SameTarget(g, h) ==
    /\ hs[g].toNodeId = hs[h].toNodeId
    /\ hs[g].channelIndex = hs[h].channelIndex

\* C23: the chunks of two multi-chunk replies to one target are never
\* interleaved: no handler hands a chunk to the bridge while another
\* handler is inside a reply to the same target
C23_Claim ==
    \A g, h \in Handlers :
        (g # h /\ Posting(h) /\ Len(hs[h].chunks) > 1 /\ SameTarget(g, h))
            => ~MidReply(g)

\* C22: any two consecutive POST /send transmissions of the monitor begin at
\* least 3 seconds apart: a step hands at most one text to the bridge, and
\* only when 3 seconds have passed since the previous one was handed over
C22_Claim ==
    [][ PostsIn(fx'.ops) # {} =>
           /\ Cardinality(PostsIn(fx'.ops)) = 1
           /\ sincePost # NoPost => sincePost[1] >= PacingDelay
      ]_vars

\* C24: every text handed to POST /send is at most 230 bytes long, on every
\* path: reply chunks, the approval notice, sendText and the sendMedia text
\* fallback
C24_Claim ==
    rout # <<>> => \A k \in 1..Len(rout[1]) : rout[1][k] <= 230

\* C25: the reply address recorded for a message, passed through
\* normalizeTarget and sendText, gives the `to` and `channelIndex` the
\* handler's own delivery uses for that message
C25_Claim ==
    rout # <<>> => rout[1].outbound = rout[1].delivery

====
